---- MODULE Spec2Model ----
(***************************************************************************)
(* Model of the counter character-device session of counter.py             *)
(* (Counter.subscribe_events, the unsubscribe function it returns and      *)
(* read_event) and of the example script test.py that drives it.           *)
(*                                                                         *)
(* The kernel is the environment: whether it accepts a request, and what   *)
(* the device hands to a read, are inputs drawn with \E.  What the model   *)
(* records of the kernel is the effect of the requests the code issued on  *)
(* the handle: open or closed, non-blocking or not, the watches added,     *)
(* events enabled or not, and the data not yet read.                       *)
(***************************************************************************)
EXTENDS Integers, Sequences, FiniteSets, TLC

\* ------------------------------------------------------------ bounds
MaxWatches == 2     \* longest watch list handed to subscribe_events
MaxPending == 2     \* read results the device holds ready at one time
MaxReads   == 3     \* read_event calls on one session
MaxCloses  == 3     \* calls of the unsubscribe function on one session

\* --------------------------------------------------------- constants
\* CounterEventType members
OVERFLOW  == 0
UNDERFLOW == 1
INDEX == 4

\* The event kinds the example script watches.
EventTypes == {OVERFLOW, UNDERFLOW}

\* A CounterWatch built as CounterWatch(event=e): the component reference
\* and the channel keep their zero defaults, so the event kind names it.
Watches == EventTypes

\* ctypes sizes: CounterComponent is four c_uint8, CounterWatch adds two
\* more, CounterEvent is two c_uint64, a CounterWatch and a c_uint8,
\* padded to the alignment of c_uint64.
SizeofUint8  == 1
SizeofUint64 == 8
AlignUp(n, a) == ((n + a - 1) \div a) * a
SizeofCounterComponent == SizeofUint8 + SizeofUint8 + SizeofUint8 + SizeofUint8
SizeofCounterWatch == SizeofCounterComponent + SizeofUint8 + SizeofUint8
SizeofCounterEvent ==
    AlignUp(SizeofUint64 + SizeofUint64 + SizeofCounterWatch + SizeofUint8,
            SizeofUint64)

\* ---------------------------------------------------------- sessions
\* Every call of subscribe_events makes a session of its own: an open
\* file f, the ExitStack that pop_all() returned, and the two closures.
Sessions == {"s1", "s2"}
Solo     == {"s1"}

VARIABLES
    state,      \* the caller's view of the session: none, active, closed, failed
    fdOpen,     \* the file f is open
    nonblock,   \* O_NONBLOCK is set on f
    reg,        \* the watches the kernel accepted on f, in order
    enabled,    \* the last enable/disable request the kernel accepted
    log,        \* the requests issued on f, in order
    unsub,      \* the callbacks held by the ExitStack behind unsubscribe
    asked,      \* the watch list subscribe_events was called with
    pending,    \* what the next reads of f will be handed, in order
    data,       \* what f.read gave the last read_event call
    result,     \* how the last call on the session ended
    nReads,     \* read_event calls made
    nCloses,    \* unsubscribe calls made
    \* the example script test.py
    pc,         \* the statement the script is at
    xstack,     \* the callbacks on the script's ExitStack
    raisedAt,   \* the statement at which the script's with block was left
    countEnable,\* count0/enable as the script last wrote it
    rotations,  \* the script's rotations counter
    seen,       \* the kinds of the events read_event gave the script, in order
    \* the construction of a Counter
    numCounts,  \* what the device's num_counts file holds
    sysfs,      \* the text of each count's enable, ceiling, function, count
    writes,     \* the sysfs writes made, in order
    cstate,     \* new, built (Counter() returned) or raised
    cargs,      \* the arguments Counter() was called with
    nSets,      \* writes of a count's enable made after construction
    \* the ioctl request codes
    iocCall     \* the last call of _IOC, its arguments and its code: <<>> or <<call>>

svars == <<state, fdOpen, nonblock, reg, enabled, log, unsub, asked, pending,
           data, result, nReads, nCloses>>
xvars == <<pc, xstack, raisedAt, countEnable, rotations, seen>>
cvars == <<numCounts, sysfs, writes, cstate, cargs, nSets>>
ivars == <<iocCall>>
vars  == <<svars, xvars, cvars, ivars>>

\* The requests that can appear in log: the request, the watch it carries
\* (add-watch only) and whether the kernel accepted it.
Req(name, args, ok) == [req |-> name, args |-> args, ok |-> ok]
ReqOpen(ok)    == Req("open", <<>>, ok)
ReqSetfl(ok)   == Req("setfl", <<>>, ok)
ReqAdd(w, ok)  == Req("add", <<w>>, ok)
ReqEnable(ok)  == Req("enable", <<>>, ok)
ReqDisable(ok) == Req("disable", <<>>, ok)
ReqClose       == Req("close", <<>>, TRUE)
ReqRead        == Req("read", <<>>, TRUE)

\* The callbacks an ExitStack can hold here.
CbFileExit == "f.__exit__"
CbDisable  == "ioctl_disable"

NoResult == [op |-> "-", out |-> "-", ev |-> 0]
Res(op, out)        == [op |-> op, out |-> out, ev |-> 0]
ResEvent(e)         == [op |-> "read", out |-> "event", ev |-> e]

WatchLists == UNION {[1..n -> Watches] : n \in 0..MaxWatches}

\* ------------------------------------------------ ExitStack, faulty
\* Faulty variant: the callbacks run first-in first-out.
RECURSIVE RunCallbacks_Fifo(_, _, _)
RunCallbacks_Fifo(cbs, disableOk, h) ==
    IF cbs = <<>> THEN h
    ELSE LET h2 == IF Head(cbs) = "ioctl_disable"
                   THEN [h EXCEPT !.log = Append(@, Req("disable", <<>>, disableOk)),
                                  !.enabled = IF disableOk THEN FALSE ELSE @,
                                  !.raised = @ \/ ~disableOk]
                   ELSE [h EXCEPT !.log = Append(@, Req("close", <<>>, TRUE)),
                                  !.fdOpen = FALSE]
         IN RunCallbacks_Fifo(Tail(cbs), disableOk, h2)

\* Faulty variant: the first callback that raises ends the unwinding.
RECURSIVE RunCallbacks_StopsAtRaise(_, _, _)
RunCallbacks_StopsAtRaise(cbs, disableOk, h) ==
    IF cbs = <<>> THEN h
    ELSE LET cb   == cbs[Len(cbs)]
             rest == SubSeq(cbs, 1, Len(cbs) - 1)
         IN IF cb = "ioctl_disable"
            THEN LET h2 == [h EXCEPT !.log = Append(@, Req("disable", <<>>, disableOk)),
                                     !.enabled = IF disableOk THEN FALSE ELSE @,
                                     !.raised = @ \/ ~disableOk]
                 IN IF disableOk THEN RunCallbacks_StopsAtRaise(rest, disableOk, h2)
                    ELSE h2
            ELSE RunCallbacks_StopsAtRaise(rest, disableOk,
                     [h EXCEPT !.log = Append(@, Req("close", <<>>, TRUE)),
                               !.fdOpen = FALSE])

\* ------------------------------------------------------- ExitStack
\* ExitStack.close() / __exit__: pops the callbacks last-in first-out and
\* runs every one of them, also after one has raised; the exception is
\* raised again once all have run.  disableOk is the kernel's answer to
\* the disable-events request.  Returns the requests issued, whether the
\* call raised, and the handle's state afterwards.
RECURSIVE RunCallbacks(_, _, _)
RunCallbacks(cbs, disableOk, h) ==
    IF cbs = <<>> THEN h
    ELSE LET cb   == cbs[Len(cbs)]
             rest == SubSeq(cbs, 1, Len(cbs) - 1)
             h2   == IF cb = CbDisable
                     THEN [h EXCEPT !.log = Append(@, ReqDisable(disableOk)),
                                    !.enabled = IF disableOk THEN FALSE ELSE @,
                                    !.raised = @ \/ ~disableOk]
                     ELSE [h EXCEPT !.log = Append(@, ReqClose),
                                    !.fdOpen = FALSE]
         IN RunCallbacks(rest, disableOk, h2)

\* ------------------------------------------------- subscribe_events
\* The kernel's answers to the requests of one subscribe_events call.
Answers(watches) ==
    [openOk : BOOLEAN, setflOk : BOOLEAN, rej : SUBSET (1..Len(watches)),
     enableOk : BOOLEAN]

\* open(self._dev, "rb") entered on the stack.
OpenDev(h, ok) ==
    [h EXCEPT !.log = Append(@, ReqOpen(ok)),
              !.fdOpen = ok,
              !.stack = IF ok THEN Append(@, CbFileExit) ELSE @,
              !.raised = ~ok]

\* Faulty variant: the handle is left in blocking mode.
SetNonblocking_Skipped(h, ok) == h

\* fcntl(f, F_SETFL, O_NONBLOCK)
SetNonblocking(h, ok) ==
    [h EXCEPT !.log = Append(@, ReqSetfl(ok)),
              !.nonblock = ok,
              !.raised = ~ok]

\* Faulty variant: a rejected add-watch request is ignored and the loop
\* goes on.
RECURSIVE AddWatches_IgnoresRejection(_, _, _, _)
AddWatches_IgnoresRejection(watches, i, rej, h) ==
    IF i > Len(watches) THEN h
    ELSE AddWatches_IgnoresRejection(watches, i + 1, rej,
             [h EXCEPT !.log = Append(@, Req("add", <<watches[i]>>, i \notin rej)),
                       !.reg = IF i \in rej THEN @ ELSE Append(@, watches[i])])

\* Faulty variant: the first watch is taken before the list is looked at,
\* so an empty list raises.
RECURSIVE AddWatches_IndexesFirst(_, _, _, _)
AddWatches_IndexesFirst(watches, i, rej, h) ==
    IF Len(watches) = 0 THEN [h EXCEPT !.raised = TRUE]
    ELSE IF i > Len(watches) THEN h
    ELSE IF i \in rej
         THEN [h EXCEPT !.log = Append(@, Req("add", <<watches[i]>>, FALSE)),
                        !.raised = TRUE]
         ELSE AddWatches_IndexesFirst(watches, i + 1, rej,
                  [h EXCEPT !.log = Append(@, Req("add", <<watches[i]>>, TRUE)),
                            !.reg = Append(@, watches[i])])

\* for watch in watches: ioctl(f, COUNTER_ADD_WATCH_IOCTL, watch)
\* from index i on; the first request the kernel rejects raises.
RECURSIVE AddWatches(_, _, _, _)
AddWatches(watches, i, rej, h) ==
    IF i > Len(watches) THEN h
    ELSE IF i \in rej
         THEN [h EXCEPT !.log = Append(@, ReqAdd(watches[i], FALSE)),
                        !.raised = TRUE]
         ELSE AddWatches(watches, i + 1, rej,
                         [h EXCEPT !.log = Append(@, ReqAdd(watches[i], TRUE)),
                                   !.reg = Append(@, watches[i])])

\* Faulty variant: the answer to enable-events is not looked at.
EnableEvents_Unchecked(h, ok) ==
    [h EXCEPT !.log = Append(@, Req("enable", <<>>, ok)),
              !.enabled = ok,
              !.stack = Append(@, "ioctl_disable")]

\* Faulty variant: the disable-events callback is put on the stack before
\* enable-events is issued.
EnableEvents_RegistersFirst(h, ok) ==
    [h EXCEPT !.log = Append(@, Req("enable", <<>>, ok)),
              !.enabled = ok,
              !.stack = Append(@, "ioctl_disable"),
              !.raised = ~ok]

\* ioctl(f, COUNTER_ENABLE_EVENTS_IOCTL), then
\* stack.callback(ioctl, f, COUNTER_DISABLE_EVENTS_IOCTL)
EnableEvents(h, ok) ==
    [h EXCEPT !.log = Append(@, ReqEnable(ok)),
              !.enabled = ok,
              !.stack = IF ok THEN Append(@, CbDisable) ELSE @,
              !.raised = ~ok]

NoHandle ==
    [log |-> <<>>, fdOpen |-> FALSE, nonblock |-> FALSE, reg |-> <<>>,
     enabled |-> FALSE, raised |-> FALSE, stack |-> <<>>]

\* Leaving the with block: by an exception, the stack unwinds and the
\* exception goes on to the caller; by the return, pop_all() has moved the
\* callbacks to the stack behind unsubscribe and none is run.
LeaveWith(h) ==
    IF h.raised
    THEN [RunCallbacks(h.stack, TRUE, h) EXCEPT !.raised = TRUE, !.stack = <<>>]
    ELSE h

\* Faulty variant: events are enabled before the watches are added.
SubscribeEvents_EnablesFirst(watches, k) ==
    LET h0 == OpenDev(NoHandle, k.openOk)
        h1 == IF h0.raised THEN h0 ELSE SetNonblocking(h0, k.setflOk)
        h2 == IF h1.raised THEN h1 ELSE EnableEvents(h1, k.enableOk)
        h3 == IF h2.raised THEN h2 ELSE AddWatches(watches, 1, k.rej, h2)
    IN LeaveWith(h3)

\* The body of subscribe_events.  Returns the handle's state, whether the
\* call raised, and the callbacks of the stack pop_all() returned.
SubscribeEvents(watches, k) ==
    LET h0 == OpenDev(NoHandle, k.openOk)
        h1 == IF h0.raised THEN h0 ELSE SetNonblocking(h0, k.setflOk)
        h2 == IF h1.raised THEN h1 ELSE AddWatches(watches, 1, k.rej, h1)
        h3 == IF h2.raised THEN h2 ELSE EnableEvents(h2, k.enableOk)
    IN LeaveWith(h3)

Open(s, watches, k) ==
    /\ state[s] = "none"
    /\ LET h == SubscribeEvents(watches, k)
       IN /\ state'    = [state EXCEPT ![s] = IF h.raised THEN "failed" ELSE "active"]
          /\ fdOpen'   = [fdOpen EXCEPT ![s] = h.fdOpen]
          /\ nonblock' = [nonblock EXCEPT ![s] = h.nonblock]
          /\ reg'      = [reg EXCEPT ![s] = h.reg]
          /\ enabled'  = [enabled EXCEPT ![s] = h.enabled]
          /\ log'      = [log EXCEPT ![s] = h.log]
          /\ unsub'    = [unsub EXCEPT ![s] = h.stack]
          /\ asked'    = [asked EXCEPT ![s] = watches]
          /\ result'   = [result EXCEPT ![s] =
                             Res("open", IF h.raised THEN "error" ELSE "ok")]
    /\ UNCHANGED <<pending, data, nReads, nCloses>>

Handle(s) ==
    [log |-> log[s], fdOpen |-> fdOpen[s], nonblock |-> nonblock[s],
     reg |-> reg[s], enabled |-> enabled[s], raised |-> FALSE,
     stack |-> unsub[s]]

\* Faulty variant: the callbacks stay on the stack after they have run.
Unsubscribe_KeepsCallbacks(h, disableOk) ==
    RunCallbacks(h.stack, disableOk, h)

\* ------------------------------------------------------ unsubscribe
\* stack.pop_all().close: runs the callbacks and leaves the stack empty.
Unsubscribe(h, disableOk) ==
    [RunCallbacks(h.stack, disableOk, h) EXCEPT !.stack = <<>>]

\* Faulty variant: the file is kept on the Counter, so that closing one
\* session's handle closes every session's.
Close_SharedFile(s, disableOk) ==
    /\ state[s] \in {"active", "closed"}
    /\ nCloses[s] < MaxCloses
    /\ LET h == Unsubscribe(Handle(s), disableOk)
       IN /\ state'   = [state EXCEPT ![s] = "closed"]
          /\ fdOpen'  = [t \in Sessions |-> IF t = s THEN h.fdOpen ELSE FALSE]
          /\ enabled' = [enabled EXCEPT ![s] = h.enabled]
          /\ log'     = [log EXCEPT ![s] = h.log]
          /\ unsub'   = [unsub EXCEPT ![s] = h.stack]
          /\ result'  = [result EXCEPT ![s] =
                            Res("close", IF h.raised THEN "error" ELSE "ok")]
    /\ nCloses' = [nCloses EXCEPT ![s] = @ + 1]
    /\ UNCHANGED <<nonblock, reg, asked, pending, data, nReads>>

Close(s, disableOk) ==
    /\ state[s] \in {"active", "closed"}
    /\ nCloses[s] < MaxCloses
    /\ LET h == Unsubscribe(Handle(s), disableOk)
       IN /\ state'   = [state EXCEPT ![s] = "closed"]
          /\ fdOpen'  = [fdOpen EXCEPT ![s] = h.fdOpen]
          /\ enabled' = [enabled EXCEPT ![s] = h.enabled]
          /\ log'     = [log EXCEPT ![s] = h.log]
          /\ unsub'   = [unsub EXCEPT ![s] = h.stack]
          /\ result'  = [result EXCEPT ![s] =
                            Res("close", IF h.raised THEN "error" ELSE "ok")]
    /\ nCloses' = [nCloses EXCEPT ![s] = @ + 1]
    /\ UNCHANGED <<nonblock, reg, asked, pending, data, nReads>>

\* ------------------------------------------------------- read_event
\* What the device holds for a read: n bytes of an event record of kind ev.
Chunk(n, e) == [len |-> n, ev |-> e]

NoData == [kind |-> "-", data |-> Chunk(0, 0)]

\* Faulty variant: read does not look at whether the file is closed.
FRead_IgnoresClosed(open, nb, q) ==
    IF q = <<>>
    THEN [kind |-> IF nb THEN "None" ELSE "wait", data |-> Chunk(0, 0)]
    ELSE [kind |-> "bytes", data |-> Head(q)]

\* f.read(size): an error on a closed file; None when the handle is
\* non-blocking and nothing is pending; a wait when it is blocking and
\* nothing is pending; else the bytes at the head of the queue.
FRead(open, nb, q) ==
    IF ~open THEN [kind |-> "closed", data |-> Chunk(0, 0)]
    ELSE IF q = <<>>
         THEN [kind |-> IF nb THEN "None" ELSE "wait", data |-> Chunk(0, 0)]
         ELSE [kind |-> "bytes", data |-> Head(q)]

\* Faulty variant: a short buffer fills the fields it reaches.
FromBufferCopy_NoLengthCheck(buf) ==
    [op |-> "read", out |-> "event", ev |-> buf.ev]

\* Faulty variant: the bytes a read was handed stay in the queue.
AfterRead_KeepsData(open, q) == q

\* What a read leaves of the data: the bytes it was handed are gone; an
\* empty result is the end of the data and stays.
AfterRead(open, q) ==
    IF open /\ q # <<>> /\ Head(q).len > 0 THEN Tail(q) ELSE q

\* CounterEvent.from_buffer_copy(data): refuses a buffer shorter than the
\* structure, else gives the record.
FromBufferCopy(buf) ==
    IF buf.len < SizeofCounterEvent
    THEN Res("read", "error")
    ELSE ResEvent(buf.ev)

\* Faulty variant: read_event tests "if not data" and so takes an empty
\* result for None.
ReadEventResult_FalsyIsNone(r) ==
    CASE r.kind = "closed" -> Res("read", "error")
      [] r.kind = "wait"   -> Res("read", "blocked")
      [] r.kind = "None"   -> Res("read", "nodata")
      [] r.data.len = 0    -> Res("read", "nodata")
      [] OTHER             -> FromBufferCopy(r.data)

\* The body of read_event on what f.read gave.
ReadEventResult(r) ==
    CASE r.kind = "closed" -> Res("read", "error")
      [] r.kind = "wait"   -> Res("read", "blocked")
      [] r.kind = "None"   -> Res("read", "nodata")
      [] OTHER             -> FromBufferCopy(r.data)

\* Faulty variant: an error in read_event closes the file.
ReadEvent_ClosesOnError(s) ==
    /\ state[s] \in {"active", "closed"}
    /\ nReads[s] < MaxReads
    /\ LET r   == FRead(fdOpen[s], nonblock[s], pending[s])
           res == ReadEventResult(r)
           bad == res.out = "error" /\ fdOpen[s]
       IN /\ data'    = [data EXCEPT ![s] = r]
          /\ result'  = [result EXCEPT ![s] = res]
          /\ log'     = [log EXCEPT ![s] =
                            IF r.kind = "closed" THEN @
                            ELSE IF bad THEN @ \o <<ReqRead, ReqClose>>
                            ELSE Append(@, ReqRead)]
          /\ fdOpen'  = [fdOpen EXCEPT ![s] = IF bad THEN FALSE ELSE @]
          /\ pending' = [pending EXCEPT ![s] = AfterRead(fdOpen[s], @)]
    /\ nReads' = [nReads EXCEPT ![s] = @ + 1]
    /\ UNCHANGED <<state, nonblock, reg, enabled, unsub, asked, nCloses>>

ReadEvent(s) ==
    /\ state[s] \in {"active", "closed"}
    /\ nReads[s] < MaxReads
    /\ LET r == FRead(fdOpen[s], nonblock[s], pending[s])
       IN /\ data'    = [data EXCEPT ![s] = r]
          /\ result'  = [result EXCEPT ![s] = ReadEventResult(r)]
          /\ log'     = [log EXCEPT ![s] =
                            IF r.kind = "closed" THEN @ ELSE Append(@, ReqRead)]
          /\ pending' = [pending EXCEPT ![s] = AfterRead(fdOpen[s], @)]
    /\ nReads' = [nReads EXCEPT ![s] = @ + 1]
    /\ UNCHANGED <<state, fdOpen, nonblock, reg, enabled, unsub, asked, nCloses>>

\* ------------------------------------------------------- the device
\* The lengths a read can be handed: nothing, part of a record, a record.
ChunkLens == {0, 1, SizeofCounterEvent}

Range(f) == {f[i] : i \in DOMAIN f}

IsRecord(c) == c.len = SizeofCounterEvent

\* The device makes data ready on an open handle.  A record of a watched
\* event is queued while events are enabled.  A short or empty result is
\* what a read is handed when that is all the device has: it is made
\* ready alone, and nothing is queued behind it before it is read.
Deliver(s, c) ==
    /\ fdOpen[s]
    /\ Len(pending[s]) < MaxPending
    /\ \A i \in DOMAIN pending[s] : IsRecord(pending[s][i])
    /\ \/ IsRecord(c) /\ enabled[s] /\ c.ev \in Range(reg[s])
       \/ ~IsRecord(c) /\ c.ev = 0 /\ pending[s] = <<>>
    /\ pending' = [pending EXCEPT ![s] = Append(@, c)]
    /\ UNCHANGED <<state, fdOpen, nonblock, reg, enabled, log, unsub, asked,
                   data, result, nReads, nCloses>>

\* ------------------------------------------- the ioctl request codes
_IOC_NRBITS == 8
_IOC_TYPEBITS == 8
_IOC_SIZEBITS == 14
_IOC_DIRBITS == 2
_IOC_NONE == 0
_IOC_WRITE == 1
_IOC_READ == 2
\* 0x3E, the type of the counter requests
COUNTER_IOCTL_TYPE == 62

\* A Python int that is not negative, as its bits, lowest first, the
\* highest a 1: the codes of direction 2 and up are beyond 2^31.
RECURSIVE ToBits(_)
ToBits(n) == IF n = 0 THEN <<>> ELSE <<n % 2>> \o ToBits(n \div 2)

BitAt(b, i) == IF i <= Len(b) THEN b[i] ELSE 0

\* b << k
Shl(b, k) == IF b = <<>> THEN <<>> ELSE [i \in 1..k |-> 0] \o b

\* a | b
BitOr(a, b) ==
    [i \in 1..(IF Len(a) > Len(b) THEN Len(a) ELSE Len(b)) |->
        IF BitAt(a, i) = 1 \/ BitAt(b, i) = 1 THEN 1 ELSE 0]

\* Bits without the zeros above the highest 1.
RECURSIVE TrimBits(_)
TrimBits(b) ==
    IF b = <<>> THEN <<>>
    ELSE IF b[Len(b)] = 1 THEN b
    ELSE TrimBits(SubSeq(b, 1, Len(b) - 1))

\* Faulty variant: each argument is cut to the width of its field.
_IOC_Masked(direction, request_type, request_nr, size) ==
    LET _IOC_NRSHIFT   == 0
        _IOC_TYPESHIFT == _IOC_NRSHIFT + _IOC_NRBITS
        _IOC_SIZESHIFT == _IOC_TYPESHIFT + _IOC_TYPEBITS
        _IOC_DIRSHIFT  == _IOC_SIZESHIFT + _IOC_SIZEBITS
    IN BitOr(BitOr(BitOr(
           Shl(ToBits(direction % 2^_IOC_DIRBITS), _IOC_DIRSHIFT),
           Shl(ToBits(request_type % 2^_IOC_TYPEBITS), _IOC_TYPESHIFT)),
           Shl(ToBits(request_nr % 2^_IOC_NRBITS), _IOC_NRSHIFT)),
           Shl(ToBits(size % 2^_IOC_SIZEBITS), _IOC_SIZESHIFT))

\* Faulty variant: the size is shifted as far as the type.
_IOC_SizeAtType(direction, request_type, request_nr, size) ==
    LET _IOC_NRSHIFT   == 0
        _IOC_TYPESHIFT == _IOC_NRSHIFT + _IOC_NRBITS
        _IOC_SIZESHIFT == _IOC_TYPESHIFT
        _IOC_DIRSHIFT  == _IOC_TYPESHIFT + _IOC_TYPEBITS + _IOC_SIZEBITS
    IN BitOr(BitOr(BitOr(
           Shl(ToBits(direction), _IOC_DIRSHIFT),
           Shl(ToBits(request_type), _IOC_TYPESHIFT)),
           Shl(ToBits(request_nr), _IOC_NRSHIFT)),
           Shl(ToBits(size), _IOC_SIZESHIFT))

_IOC(direction, request_type, request_nr, size) ==
    LET _IOC_NRSHIFT   == 0
        _IOC_TYPESHIFT == _IOC_NRSHIFT + _IOC_NRBITS
        _IOC_SIZESHIFT == _IOC_TYPESHIFT + _IOC_TYPEBITS
        _IOC_DIRSHIFT  == _IOC_SIZESHIFT + _IOC_SIZEBITS
    IN BitOr(BitOr(BitOr(
           Shl(ToBits(direction), _IOC_DIRSHIFT),
           Shl(ToBits(request_type), _IOC_TYPESHIFT)),
           Shl(ToBits(request_nr), _IOC_NRSHIFT)),
           Shl(ToBits(size), _IOC_SIZESHIFT))

COUNTER_ADD_WATCH_IOCTL ==
    _IOC(_IOC_WRITE, COUNTER_IOCTL_TYPE, 0, SizeofCounterWatch)
COUNTER_ENABLE_EVENTS_IOCTL == _IOC(_IOC_NONE, COUNTER_IOCTL_TYPE, 1, 0)
COUNTER_DISABLE_EVENTS_IOCTL == _IOC(_IOC_NONE, COUNTER_IOCTL_TYPE, 2, 0)

\* The arguments _IOC is tried on: those of the three requests, the
\* highest value each field holds, and the first value it does not hold.
Directions == {_IOC_NONE, _IOC_WRITE, _IOC_READ,
               2^_IOC_DIRBITS - 1, 2^_IOC_DIRBITS}
Types == {COUNTER_IOCTL_TYPE, 2^_IOC_TYPEBITS - 1, 2^_IOC_TYPEBITS}
Numbers == {0, 1, 2, 2^_IOC_NRBITS}
Sizes == {0, SizeofCounterWatch, 2^_IOC_SIZEBITS - 1, 2^_IOC_SIZEBITS}

\* A call _IOC(direction, request_type, request_nr, size).
CallIoc(direction, request_type, request_nr, size) ==
    LET call == [direction |-> direction, request_type |-> request_type,
                 request_nr |-> request_nr, size |-> size,
                 code |-> _IOC(direction, request_type, request_nr, size)]
    IN iocCall' = <<call>>

\* ------------------------------------------- the Counter constructor
MaxCounts == 2
MaxSets == 1

_DEFAULT_FUNCTION == "quadrature x4"
Functions == {_DEFAULT_FUNCTION, "increase"}
Ceilings == {0, 359}
\* The count argument: <<>> is None, <<v>> the value v.
CountArgs == {<<>>, <<0>>, <<7>>}

\* What a sysfs file holds is text.  The enable setter writes
\* str(int(bool(value))), the others str(value); the enable getter gives
\* bool(int(text)).
EnableText(value) == IF value THEN "1" ELSE "0"
EnableOf(text) == text # "0"

SysfsWrite(id, attr, text) == [id |-> id, attr |-> attr, text |-> text]

\* One write of a sysfs file by a property setter, in the course c of a
\* call: c.left counts the sysfs accesses up to the one that fails (0:
\* none fails).  A write that fails raises and leaves the file as it was.
SetAttr(c, id, attr, text) ==
    IF c.raised THEN c
    ELSE IF c.left = 1 THEN [c EXCEPT !.raised = TRUE, !.left = 0]
    ELSE [c EXCEPT !.sysfs[id][attr] = text,
                   !.writes = Append(@, SysfsWrite(id, attr, text)),
                   !.left = IF @ = 0 THEN 0 ELSE @ - 1]

\* One read of a sysfs file.
GetAttr(c) ==
    IF c.raised THEN c
    ELSE IF c.left = 1 THEN [c EXCEPT !.raised = TRUE, !.left = 0]
    ELSE [c EXCEPT !.left = IF @ = 0 THEN 0 ELSE @ - 1]

\* Faulty variant: enable is written last.
CountInit_DisablesLast(c, id, function, ceiling, count) ==
    LET c1 == SetAttr(c, id, "ceiling", ToString(ceiling))
        c2 == SetAttr(c1, id, "function", function)
        c3 == IF count # <<>>
              THEN SetAttr(c2, id, "count", ToString(count[1]))
              ELSE c2
    IN SetAttr(c3, id, "enable", EnableText(FALSE))

\* Count.__init__: enable = False, ceiling, function, and the count when
\* one is given.
CountInit(c, id, function, ceiling, count) ==
    LET c1 == SetAttr(c, id, "enable", EnableText(FALSE))
        c2 == SetAttr(c1, id, "ceiling", ToString(ceiling))
        c3 == SetAttr(c2, id, "function", function)
    IN IF count # <<>>
       THEN SetAttr(c3, id, "count", ToString(count[1]))
       ELSE c3

\* for count_id in range(num_counts): Count(self, count_id, ...)
RECURSIVE CountsLoop(_, _, _, _)
CountsLoop(c, count_id, n, a) ==
    IF count_id >= n \/ c.raised THEN c
    ELSE CountsLoop(CountInit(c, count_id, a.function, a.ceiling, a.count),
                    count_id + 1, n, a)

\* Counter.__init__: read num_counts, make the counts, read num_signals.
\* (A Signal's constructor touches no file.)
CounterInit(c, n, a) == GetAttr(CountsLoop(GetAttr(c), 0, n, a))

\* The sysfs accesses of a construction that runs to its end.
Accesses(n, a) == 2 + n * (IF a.count = <<>> THEN 3 ELSE 4)

NoArgs == [function |-> _DEFAULT_FUNCTION, ceiling |-> 0, count |-> <<>>]

\* c = Counter(id, function, ceiling, count)
Construct(a, failAt) ==
    /\ cstate = "new"
    /\ LET c == CounterInit([sysfs |-> sysfs, writes |-> writes,
                             left |-> failAt, raised |-> FALSE],
                            numCounts, a)
       IN /\ sysfs' = c.sysfs
          /\ writes' = c.writes
          /\ cstate' = IF c.raised THEN "raised" ELSE "built"
    /\ cargs' = a
    /\ UNCHANGED <<numCounts, nSets>>

\* c.count[id].enable = value, on a constructed Counter.
SetEnable(id, value, ok) ==
    /\ cstate = "built"
    /\ nSets < MaxSets
    /\ id \in DOMAIN sysfs
    /\ LET c == SetAttr([sysfs |-> sysfs, writes |-> writes,
                         left |-> IF ok THEN 0 ELSE 1, raised |-> FALSE],
                        id, "enable", EnableText(value))
       IN sysfs' = c.sysfs /\ writes' = c.writes
    /\ nSets' = nSets + 1
    /\ UNCHANGED <<numCounts, cstate, cargs>>

\* No Counter is being constructed.
InitNoCounter ==
    /\ numCounts = 0
    /\ sysfs = <<>>
    /\ writes = <<>>
    /\ cstate = "new"
    /\ cargs = NoArgs
    /\ nSets = 0

\* ------------------------------------------------------------- spec
\* No subscribe_events call has been made.
InitSessions ==
    /\ state    = [s \in Sessions |-> "none"]
    /\ fdOpen   = [s \in Sessions |-> FALSE]
    /\ nonblock = [s \in Sessions |-> FALSE]
    /\ reg      = [s \in Sessions |-> <<>>]
    /\ enabled  = [s \in Sessions |-> FALSE]
    /\ log      = [s \in Sessions |-> <<>>]
    /\ unsub    = [s \in Sessions |-> <<>>]
    /\ asked    = [s \in Sessions |-> <<>>]
    /\ pending  = [s \in Sessions |-> <<>>]
    /\ data     = [s \in Sessions |-> NoData]
    /\ result   = [s \in Sessions |-> NoResult]
    /\ nReads   = [s \in Sessions |-> 0]
    /\ nCloses  = [s \in Sessions |-> 0]

Init ==
    /\ InitSessions
    /\ pc = "construct"
    /\ xstack = <<>>
    /\ raisedAt = "-"
    /\ countEnable = FALSE
    /\ rotations = 0
    /\ seen = <<>>
    /\ InitNoCounter
    /\ iocCall = <<>>

\* The script starts with sysfs in any state.
InitExample ==
    /\ InitSessions
    /\ pc = "construct"
    /\ xstack = <<>>
    /\ raisedAt = "-"
    /\ countEnable \in BOOLEAN
    /\ rotations = 0
    /\ seen = <<>>
    /\ InitNoCounter
    /\ iocCall = <<>>

DoOpen ==
    /\ \E s \in Solo, w \in WatchLists : \E k \in Answers(w) : Open(s, w, k)
    /\ UNCHANGED <<xvars, cvars, ivars>>
DoClose ==
    /\ \E s \in Solo, ok \in BOOLEAN : Close(s, ok)
    /\ UNCHANGED <<xvars, cvars, ivars>>
DoRead ==
    /\ \E s \in Solo : ReadEvent(s)
    /\ UNCHANGED <<xvars, cvars, ivars>>
DoDeliver ==
    /\ \E s \in Solo, n \in ChunkLens, e \in EventTypes : Deliver(s, Chunk(n, e))
    /\ UNCHANGED <<xvars, cvars, ivars>>

Next == DoOpen \/ DoClose \/ DoRead \/ DoDeliver

Spec == Init /\ [][Next]_vars

\* ---------------------------------------- constructing a Counter
\* sysfs could be in any state: each count is enabled or not, and its
\* other files hold whatever was last written.
InitCounter ==
    /\ InitSessions
    /\ pc = "construct" /\ xstack = <<>> /\ raisedAt = "-"
    /\ countEnable = FALSE /\ rotations = 0 /\ seen = <<>>
    /\ numCounts \in 0..MaxCounts
    /\ sysfs \in [0..(numCounts - 1) ->
                    [enable : {"0", "1"}, ceiling : {"0"},
                     function : {"increase"}, count : {"3"}]]
    /\ writes = <<>>
    /\ cstate = "new"
    /\ cargs = NoArgs
    /\ nSets = 0
    /\ iocCall = <<>>

DoConstruct ==
    /\ \E f \in Functions, ce \in Ceilings, co \in CountArgs :
          LET a == [function |-> f, ceiling |-> ce, count |-> co]
          IN \E failAt \in 0..Accesses(numCounts, a) : Construct(a, failAt)
    /\ UNCHANGED <<svars, xvars, ivars>>

DoSetEnable ==
    /\ \E id \in 0..(MaxCounts - 1), value \in BOOLEAN, ok \in BOOLEAN :
          SetEnable(id, value, ok)
    /\ UNCHANGED <<svars, xvars, ivars>>

NextCounter == DoConstruct \/ DoSetEnable

SpecCounter == InitCounter /\ [][NextCounter]_vars

\* --------------------------------- two sessions on the same Counter
\* Two subscribe_events calls on one Counter, their calls interleaved in
\* any order.  The kernel answers each open as it likes: it may refuse the
\* second.  Each call asks for one watch at most; the read_event and
\* unsubscribe calls and the data queued are counted over both sessions.
MaxTwoCalls == 3

RECURSIVE Total(_, _)
Total(f, S) ==
    IF S = {} THEN 0
    ELSE LET s == CHOOSE x \in S : TRUE IN f[s] + Total(f, S \ {s})

TwoCalls == Total(nReads, Sessions) + Total(nCloses, Sessions)
TwoPending == Total([s \in Sessions |-> Len(pending[s])], Sessions)
TwoWatchLists == {w \in WatchLists : Len(w) <= 1}

TwoOpen ==
    /\ \E s \in Sessions, w \in TwoWatchLists :
          \E k \in Answers(w) : Open(s, w, k)
    /\ UNCHANGED <<xvars, cvars, ivars>>
TwoClose ==
    /\ TwoCalls < MaxTwoCalls
    /\ \E s \in Sessions, ok \in BOOLEAN : Close(s, ok)
    /\ UNCHANGED <<xvars, cvars, ivars>>
TwoRead ==
    /\ TwoCalls < MaxTwoCalls
    /\ \E s \in Sessions : ReadEvent(s)
    /\ UNCHANGED <<xvars, cvars, ivars>>
TwoDeliver ==
    /\ TwoPending < MaxPending
    /\ \E s \in Sessions, n \in ChunkLens, e \in EventTypes :
          Deliver(s, Chunk(n, e))
    /\ UNCHANGED <<xvars, cvars, ivars>>

NextTwo == TwoOpen \/ TwoClose \/ TwoRead \/ TwoDeliver

SpecTwo == Init /\ [][NextTwo]_vars

\* ------------------------------------------ computing request codes
DoIoc ==
    /\ \E d \in Directions, t \in Types, nr \in Numbers, sz \in Sizes :
          CallIoc(d, t, nr, sz)
    /\ UNCHANGED <<svars, xvars, cvars>>

NextIoc == DoIoc

SpecIoc == Init /\ [][NextIoc]_vars

\* -------------------------------------------------- the example script
\* test.py: one with contextlib.ExitStack() block around the whole script.
\* Its session is the one subscribe_events call of line 29.
XS == "s1"

CbUnsubscribe  == "unsubscribe"
CbCountDisable == "setattr_enable_False"

\* A statement of the with block raises: the block is left from there.
Raise ==
    /\ raisedAt' = pc
    /\ pc' = "raised"

\* KeyboardInterrupt, the way the endless loop is meant to be ended: raised
\* at whatever statement the script has reached.
XInterrupt ==
    /\ pc \notin {"raised", "exited"}
    /\ Raise
    /\ UNCHANGED <<svars, xstack, countEnable, rotations, seen, cvars, ivars>>

\* c = Counter(_COUNTER_ID, ceiling=359, count=0): sysfs reads and writes,
\* of which Count.__init__ writes enable = False first.  A sysfs access
\* that fails does so before or after that write.
XConstruct ==
    /\ pc = "construct"
    /\ \E ok \in BOOLEAN :
          IF ok
          THEN pc' = "report" /\ countEnable' = FALSE /\ UNCHANGED raisedAt
          ELSE Raise /\ countEnable' \in {countEnable, FALSE}
    /\ UNCHANGED <<svars, xstack, rotations, seen, cvars, ivars>>

\* The prints of lines 17 to 24: sysfs reads.
XReport ==
    /\ pc = "report"
    /\ \E ok \in BOOLEAN :
          IF ok THEN pc' = "subscribe" /\ UNCHANGED raisedAt ELSE Raise
    /\ UNCHANGED <<svars, xstack, countEnable, rotations, seen, cvars, ivars>>

\* unsubscribe, read_event = c.subscribe_events([overflow, underflow])
XSubscribe ==
    /\ pc = "subscribe"
    /\ \E k \in Answers(<<OVERFLOW, UNDERFLOW>>) :
          Open(XS, <<OVERFLOW, UNDERFLOW>>, k)
    /\ IF state'[XS] = "active"
       THEN pc' = "register" /\ UNCHANGED raisedAt
       ELSE Raise
    /\ UNCHANGED <<xstack, countEnable, rotations, seen, cvars, ivars>>

\* Faulty variant: unsubscribe is not put on the stack.
XRegister_Forgets ==
    /\ pc = "register"
    /\ pc' = "enable"
    /\ UNCHANGED <<svars, xstack, raisedAt, countEnable, rotations, seen, cvars, ivars>>

\* stack.callback(unsubscribe)
XRegister ==
    /\ pc = "register"
    /\ xstack' = Append(xstack, CbUnsubscribe)
    /\ pc' = "enable"
    /\ UNCHANGED <<svars, raisedAt, countEnable, rotations, seen, cvars, ivars>>

\* c.count[0].enable = True
XEnable ==
    /\ pc = "enable"
    /\ \E ok \in BOOLEAN :
          IF ok
          THEN pc' = "register_disable" /\ countEnable' = TRUE
               /\ UNCHANGED raisedAt
          ELSE Raise /\ UNCHANGED countEnable
    /\ UNCHANGED <<svars, xstack, rotations, seen, cvars, ivars>>

\* stack.callback(setattr, c.count[0], "enable", False)
XRegisterDisable ==
    /\ pc = "register_disable"
    /\ xstack' = Append(xstack, CbCountDisable)
    /\ pc' = "print"
    /\ UNCHANGED <<svars, raisedAt, countEnable, rotations, seen, cvars, ivars>>

\* print("rotations count:", rotations, c.count[0].count): a sysfs read.
XPrint ==
    /\ pc = "print"
    /\ \E ok \in BOOLEAN :
          IF ok THEN pc' = "read" /\ UNCHANGED raisedAt ELSE Raise
    /\ UNCHANGED <<svars, xstack, countEnable, rotations, seen, cvars, ivars>>

\* Faulty variant: else in the place of the elif.
CountRotation_ElseForElif(rot, ev) ==
    IF ev = OVERFLOW THEN rot + 1 ELSE rot - 1

\* The if/elif on event.event_type: OVERFLOW counts up, UNDERFLOW counts
\* down, there is no else.
CountRotation(rot, ev) ==
    IF ev = OVERFLOW THEN rot + 1
    ELSE IF ev = UNDERFLOW THEN rot - 1
    ELSE rot

\* One pass of the inner loop: event = read_event(), the break on None,
\* the count of an OVERFLOW or UNDERFLOW event.
XRead ==
    /\ pc = "read"
    /\ ReadEvent(XS)
    /\ LET r == result'[XS]
       IN CASE r.out = "nodata" ->
                 pc' = "sleep" /\ UNCHANGED <<raisedAt, rotations, seen>>
            [] r.out = "event" ->
                 /\ pc' = "read"
                 /\ rotations' = CountRotation(rotations, r.ev)
                 /\ seen' = Append(seen, r.ev)
                 /\ UNCHANGED raisedAt
            [] r.out = "error" -> Raise /\ UNCHANGED <<rotations, seen>>
            [] OTHER -> UNCHANGED <<pc, raisedAt, rotations, seen>>
    /\ UNCHANGED <<xstack, countEnable, cvars, ivars>>

\* time.sleep(_LOOP_DELAY_SEC)
XSleep ==
    /\ pc = "sleep"
    /\ pc' = "print"
    /\ UNCHANGED <<svars, xstack, raisedAt, countEnable, rotations, seen, cvars, ivars>>

\* The with block is left: the script's ExitStack runs its callbacks
\* last-in first-out, each of them whatever the one before did.
XExit ==
    /\ pc = "raised"
    /\ pc' = "exited"
    /\ xstack' = <<>>
    /\ IF \E i \in DOMAIN xstack : xstack[i] = CbCountDisable
       THEN \E ok \in BOOLEAN : countEnable' = IF ok THEN FALSE ELSE countEnable
       ELSE UNCHANGED countEnable
    /\ IF \E i \in DOMAIN xstack : xstack[i] = CbUnsubscribe
       THEN \E ok \in BOOLEAN : Close(XS, ok)
       ELSE UNCHANGED svars
    /\ UNCHANGED <<raisedAt, rotations, seen, cvars, ivars>>

\* The device, while the script runs.
XDeliver ==
    /\ pc \notin {"exited"}
    /\ \E n \in ChunkLens, e \in EventTypes : Deliver(XS, Chunk(n, e))
    /\ UNCHANGED <<xvars, cvars, ivars>>

\* The script does not look at which kinds the kernel sends: the device may
\* also queue a record of a kind the script counts neither way.
XDeliverOther ==
    /\ pc \notin {"exited"}
    /\ fdOpen[XS] /\ enabled[XS]
    /\ Len(pending[XS]) < MaxPending
    /\ \A i \in DOMAIN pending[XS] : IsRecord(pending[XS][i])
    /\ pending' = [pending EXCEPT ![XS] = Append(@, Chunk(SizeofCounterEvent, INDEX))]
    /\ UNCHANGED <<state, fdOpen, nonblock, reg, enabled, log, unsub, asked,
                   data, result, nReads, nCloses>>
    /\ UNCHANGED <<xvars, cvars, ivars>>

NextExample ==
    \/ XConstruct \/ XReport \/ XSubscribe \/ XRegister \/ XEnable
    \/ XRegisterDisable \/ XPrint \/ XRead \/ XSleep \/ XInterrupt
    \/ XExit \/ XDeliver \/ XDeliverOther

SpecExample == InitExample /\ [][NextExample]_vars

\* ----------------------------------------------------------- claims
\* The places of request `name` in the log of session s.
Places(s, name) == {i \in DOMAIN log[s] : log[s][i].req = name}
Issued(s, name) == Cardinality(Places(s, name))
Rejected(s, name) == {i \in Places(s, name) : ~log[s][i].ok}
LastReq(s) == log[s][Len(log[s])]

\* C1: when an add-watch request of subscribe_events is rejected, the call
\* ends in an error, no enable-events request is ever issued on the handle,
\* no watch after the rejected one is submitted, and the handle is closed
\* when the call ends.
C1_AddWatchFailureAborts ==
    \A s \in Sessions :
        Rejected(s, "add") # {} =>
            /\ state[s] = "failed"
            /\ result[s] = Res("open", "error")
            /\ Issued(s, "enable") = 0
            /\ \A i \in Rejected(s, "add") : \A j \in Places(s, "add") : j <= i
            /\ ~fdOpen[s]
            /\ LastReq(s) = ReqClose
            /\ Issued(s, "close") = 1

\* The first of two watches was rejected: the second was there to submit.
C1_Witness ==
    \E s \in Sessions :
        /\ Len(asked[s]) = 2
        /\ Issued(s, "add") = 1
        /\ Rejected(s, "add") # {}

\* C2: after the first call of the unsubscribe function of a session that
\* subscribe_events returned, exactly one disable-events request and one
\* close have been issued, the close right after the disable-events: the
\* handle is never closed before disable-events was issued.
C2_CloseDisablesThenCloses ==
    \A s \in Sessions :
        (state[s] = "closed" /\ nCloses[s] = 1) =>
            /\ Issued(s, "disable") = 1
            /\ Issued(s, "close") = 1
            /\ Len(log[s]) >= 2
            /\ log[s][Len(log[s]) - 1].req = "disable"
            /\ log[s][Len(log[s])] = ReqClose

C2_Witness ==
    \E s \in Sessions :
        /\ state[s] = "closed"
        /\ nCloses[s] = 1
        /\ Issued(s, "read") > 0
        /\ Issued(s, "add") > 0

\* C3: after two or more calls of the unsubscribe function the kernel has
\* been sent a single disable-events request and a single close, as after
\* one call, and each call after the first returned without an error.
C3_CloseIdempotent ==
    \A s \in Sessions :
        nCloses[s] >= 2 =>
            /\ Issued(s, "disable") = 1
            /\ Issued(s, "close") = 1
            /\ log[s][Len(log[s]) - 1].req = "disable"
            /\ log[s][Len(log[s])] = ReqClose
            /\ ~fdOpen[s]
            /\ unsub[s] = <<>>
            /\ result[s].op = "close" => result[s].out = "ok"

\* A second call has just returned, after a first one that raised.
C3_Witness ==
    \E s \in Sessions :
        /\ nCloses[s] = 2
        /\ result[s] = Res("close", "ok")
        /\ Rejected(s, "disable") # {}

\* The session has been torn down by unsubscribe: one disable-events
\* request, then the close of the handle, and nothing after them.
TornDown(s) ==
    /\ Issued(s, "disable") = 1
    /\ Issued(s, "close") = 1
    /\ Len(log[s]) >= 2
    /\ log[s][Len(log[s]) - 1].req = "disable"
    /\ log[s][Len(log[s])] = ReqClose
    /\ ~fdOpen[s]

\* The statements of test.py after stack.callback(unsubscribe).
AfterRegister == {"enable", "register_disable", "print", "read", "sleep"}

\* C4 as claimed: whatever way the caller leaves a session that became
\* active, also without calling unsubscribe, disable-events and the close
\* of the handle have run once the caller has left.
C4_EveryExitTearsDown ==
    (pc = "exited" /\ state[XS] \in {"active", "closed"}) => TornDown(XS)

\* C4 as amended: once the caller has registered unsubscribe on its
\* ExitStack (test.py line 30), every way of leaving the with block (an
\* error of a sysfs access or of read_event, KeyboardInterrupt) runs
\* disable-events and then the close of the handle.
C4_RegisteredExitTearsDown ==
    (pc = "exited" /\ raisedAt \in AfterRegister) =>
        /\ state[XS] = "closed"
        /\ nCloses[XS] = 1
        /\ TornDown(XS)

\* The with block was left by an error of read_event, with the count
\* enabled and events read.
C4_Witness ==
    /\ pc = "exited"
    /\ raisedAt = "read"
    /\ result[XS].op = "close"
    /\ Issued(XS, "read") >= 2
    /\ TornDown(XS)

\* C5: when the kernel rejects the disable-events request of the
\* unsubscribe function, the call raises and the handle is closed all the
\* same; the handle is closed after every call of the function.
C5_DisableFailureStillCloses ==
    \A s \in Sessions :
        /\ state[s] = "closed" => ~fdOpen[s] /\ LastReq(s) = ReqClose
        /\ Rejected(s, "disable") # {} =>
              /\ ~fdOpen[s]
              /\ LastReq(s) = ReqClose
              /\ (nCloses[s] = 1 /\ result[s].op = "close") =>
                     result[s].out = "error"

C5_Witness ==
    \E s \in Sessions :
        /\ Rejected(s, "disable") # {}
        /\ result[s] = Res("close", "error")
        /\ ~fdOpen[s]

\* Events are enabled on the handle of s: the handle is open and the
\* kernel's last accepted enable/disable request was enable-events.
EventsEnabled(s) == fdOpen[s] /\ enabled[s]
Active(s) == state[s] = "active"

\* C6: events are enabled on the handle exactly while the session is active
\* (subscribe_events has returned, unsubscribe has not been called), and
\* the handle is open while the session is active.
C6_EnabledIffActive ==
    \A s \in Sessions :
        /\ EventsEnabled(s) <=> Active(s)
        /\ Active(s) => fdOpen[s]

\* An active session that has read an event.
C6_Witness ==
    \E s \in Sessions :
        Active(s) /\ EventsEnabled(s) /\ result[s].out = "event"

\* The step is a call of read_event on session s.
ReadStep(s) == nReads'[s] = nReads[s] + 1

\* C7: read_event on an active session with nothing pending returns None:
\* it does not wait, raises no error and returns no record.
C7_NoDataReturnsNone ==
    [][\A s \in Sessions :
          (Active(s) /\ pending[s] = <<>> /\ ReadStep(s)) =>
              /\ result'[s] = Res("read", "nodata")
              /\ pending'[s] = <<>>]_vars

C7_Witness ==
    \E s \in Sessions :
        Active(s) /\ result[s] = Res("read", "nodata") /\ data[s].kind = "None"

\* The last read_event call was handed at least one byte and less than a
\* full CounterEvent.
ShortRead(s) ==
    /\ result[s].op = "read"
    /\ data[s].kind = "bytes"
    /\ data[s].data.len >= 1
    /\ data[s].data.len < SizeofCounterEvent

\* C8: a read that gives at least one byte and less than a full record makes
\* read_event raise: it returns neither None nor a record.
C8_ShortReadIsError ==
    \A s \in Sessions : ShortRead(s) => result[s] = Res("read", "error")

C8_Witness ==
    \E s \in Sessions : ShortRead(s) /\ result[s].out = "error"

\* The step is a call of read_event on session s that raised.
FailedReadStep(s) == ReadStep(s) /\ result'[s] = Res("read", "error")

\* What a call of read_event on s would return now, and on the data q.
ReadOutcomeOn(s, q) == ReadEventResult(FRead(fdOpen[s], nonblock[s], q))
ReadOutcome(s) == ReadOutcomeOn(s, pending[s])

\* What a call of unsubscribe on s would do now: the requests it would
\* issue, whether it would raise, and the handle it would leave.
CloseOutcome(s, ok) ==
    LET h == Unsubscribe(Handle(s), ok)
    IN [issued  |-> SubSeq(h.log, Len(log[s]) + 1, Len(h.log)),
        raised  |-> h.raised,
        fdOpen  |-> h.fdOpen,
        enabled |-> h.enabled,
        stack   |-> h.stack]

\* A failed read_event call tears nothing down: the session is as it was,
\* at most a read was issued, and unsubscribe would do what it would have.
ReadLeavesSession(s) ==
    /\ state'[s] = state[s]
    /\ fdOpen'[s] = fdOpen[s]
    /\ enabled'[s] = enabled[s]
    /\ nonblock'[s] = nonblock[s]
    /\ reg'[s] = reg[s]
    /\ unsub'[s] = unsub[s]
    /\ log'[s] = IF fdOpen[s] THEN Append(log[s], ReqRead) ELSE log[s]
    /\ \A ok \in BOOLEAN : CloseOutcome(s, ok)' = CloseOutcome(s, ok)

\* C9 as claimed: a read_event call that raises leaves the session
\* unchanged (handle, enabled events, no disable-events request), and a
\* later read_event or unsubscribe behaves as it would have without it.
C9_FailedReadChangesNothing ==
    [][\A s \in Sessions :
          FailedReadStep(s) =>
              /\ ReadLeavesSession(s)
              /\ ReadOutcome(s)' = ReadOutcome(s)]_vars

\* C9 as amended: a read_event call that raises leaves the session
\* unchanged and a later unsubscribe behaves as it would have; a later
\* read_event behaves as it would have too, unless the call failed on a
\* short read: the bytes it was handed are consumed, and a later
\* read_event gets what follows them.
C9_FailedReadKeepsSession ==
    [][\A s \in Sessions :
          FailedReadStep(s) =>
              /\ ReadLeavesSession(s)
              /\ ShortRead(s)' => pending'[s] = Tail(pending[s])
              /\ ~ShortRead(s)' => ReadOutcome(s)' = ReadOutcome(s)]_vars

\* A read_event call on an active session has raised on the bytes it got.
C9_Witness ==
    \E s \in Sessions :
        /\ Active(s)
        /\ EventsEnabled(s)
        /\ result[s] = Res("read", "error")
        /\ data[s].kind = "bytes"
        /\ LastReq(s) = ReqRead

\* C10: subscribe_events with an empty watch list, every request accepted,
\* issues no add-watch request, issues enable-events and returns an active
\* session.
C10_EmptyWatchListOpens ==
    \A s \in Sessions :
        (/\ result[s].op = "open"
         /\ asked[s] = <<>>
         /\ \A i \in DOMAIN log[s] : log[s][i].ok) =>
            /\ Active(s)
            /\ log[s] = <<ReqOpen(TRUE), ReqSetfl(TRUE), ReqEnable(TRUE)>>
            /\ reg[s] = <<>>
            /\ EventsEnabled(s)

C10_Witness ==
    \E s \in Sessions :
        /\ result[s] = Res("open", "ok")
        /\ asked[s] = <<>>
        /\ Issued(s, "add") = 0
        /\ Issued(s, "enable") = 1


\* C15: a subscribe_events call that returns has issued, in this order: the
\* open, set non-blocking, one add-watch per watch of the list in the order
\* of the list, then enable-events.  Enable-events is never issued before
\* every add-watch was accepted, and no add-watch or read is issued before
\* the handle is non-blocking.
C15_OpenRequestOrder ==
    \A s \in Sessions :
        LET n == Len(asked[s])
        IN /\ state[s] \in {"active", "closed"} =>
                 /\ Len(log[s]) >= n + 3
                 /\ log[s][1] = ReqOpen(TRUE)
                 /\ log[s][n + 3] = ReqEnable(TRUE)
                 /\ Issued(s, "setfl") = 1
                 /\ Issued(s, "add") = n
                 /\ Issued(s, "enable") = 1
           /\ \A i \in Places(s, "enable") :
                 /\ i = n + 3
                 /\ \A j \in 1..n : log[s][2 + j] = ReqAdd(asked[s][j], TRUE)
           /\ \A i \in Places(s, "add") \cup Places(s, "read") :
                 i > 2 /\ log[s][2] = ReqSetfl(TRUE)

\* An active session with two different watches, added in order, and read.
C15_Witness ==
    \E s \in Sessions :
        /\ Active(s)
        /\ asked[s] = <<UNDERFLOW, OVERFLOW>>
        /\ reg[s] = asked[s]
        /\ Issued(s, "read") > 0

\* C16: when the kernel refuses set non-blocking or enable-events, the
\* subscribe_events call ends in an error with the handle closed and no
\* disable-events request is ever issued on the handle; a disable-events
\* request only ever follows an accepted enable-events.
C16_NoDisableWithoutEnable ==
    \A s \in Sessions :
        /\ (Rejected(s, "setfl") # {} \/ Rejected(s, "enable") # {}) =>
              /\ state[s] = "failed"
              /\ result[s] = Res("open", "error")
              /\ ~fdOpen[s]
              /\ LastReq(s) = ReqClose
              /\ Issued(s, "disable") = 0
        /\ \A i \in Places(s, "disable") :
              \E j \in 1..(i - 1) : log[s][j] = ReqEnable(TRUE)

\* Enable-events was refused after a watch had been added.
C16_Witness ==
    \E s \in Sessions :
        /\ Rejected(s, "enable") # {}
        /\ Issued(s, "add") > 0
        /\ state[s] = "failed"


\* The last call was a read_event whose f.read gave None / gave b"".
NoneRead(s) == result[s].op = "read" /\ data[s].kind = "None"
EmptyRead(s) ==
    /\ result[s].op = "read"
    /\ data[s].kind = "bytes"
    /\ data[s].data.len = 0

\* C14 as stated: read_event returns None both when nothing is pending and
\* when the read gives an empty (zero-length) result.
C14_EmptyReadIsNoData ==
    \A s \in Sessions :
        (NoneRead(s) \/ EmptyRead(s)) => result[s] = Res("read", "nodata")

\* C14, amended: read_event returns None exactly when f.read gave None
\* (nothing pending on the non-blocking handle); an empty (zero-length)
\* result is not None, reaches from_buffer_copy and raises.
C14_EmptyReadIsError ==
    \A s \in Sessions :
        /\ NoneRead(s) => result[s] = Res("read", "nodata")
        /\ EmptyRead(s) => result[s] = Res("read", "error")
        /\ result[s] = Res("read", "nodata") => NoneRead(s)

\* read_event on an active session was handed an empty result.
C14_Witness ==
    \E s \in Sessions :
        /\ Active(s)
        /\ EmptyRead(s)
        /\ result[s] = Res("read", "error")

\* The records of a queue, in order.
Records(q) == SelectSeq(q, IsRecord)
IsPrefix(p, q) == Len(p) <= Len(q) /\ SubSeq(q, 1, Len(p)) = p

\* C17: a read_event that returns a record returns the oldest record not
\* yet returned and removes exactly that one; every other step, a
\* read_event that returns None or raises included, leaves the records not
\* yet returned in place and in order (new ones are added behind them).
C17_EachRecordOnceInOrder ==
    [][\A s \in Sessions :
          LET old == Records(pending[s])
              new == Records(pending'[s])
          IN /\ (ReadStep(s) /\ result'[s].out = "event") =>
                    /\ old # <<>>
                    /\ result'[s] = ResEvent(Head(old).ev)
                    /\ new = Tail(old)
             /\ (ReadStep(s) /\ result'[s].out # "event") => new = old
             /\ ~ReadStep(s) => IsPrefix(old, new)]_vars

\* A record was returned by a second or later read while a different one
\* is still queued behind it.
C17_Witness ==
    \E s \in Sessions :
        /\ result[s] = ResEvent(OVERFLOW)
        /\ Issued(s, "read") >= 2
        /\ Records(pending[s]) = <<Chunk(SizeofCounterEvent, UNDERFLOW)>>

\* C19: once unsubscribe has been called, every read_event raises: it
\* returns neither a record nor None, issues no request on the closed
\* handle and takes nothing from the data.
C19_ReadAfterCloseFails ==
    [][\A s \in Sessions :
          (state[s] = "closed" /\ ReadStep(s)) =>
              /\ result'[s] = Res("read", "error")
              /\ data'[s].kind = "closed"
              /\ log'[s] = log[s]
              /\ pending'[s] = pending[s]]_vars

\* read_event raised after unsubscribe although a record was pending.
C19_Witness ==
    \E s \in Sessions :
        /\ state[s] = "closed"
        /\ result[s] = Res("read", "error")
        /\ Records(pending[s]) # <<>>
        /\ LastReq(s) = ReqClose


\* The events of kind k the script has read.
SeenOf(k) == Cardinality({i \in DOMAIN seen : seen[i] = k})

\* C20: in the example's polling loop the script reaches the sleep only
\* from a read_event that returned None, and rotations is always the
\* number of OVERFLOW events read less the number of UNDERFLOW events
\* read: an event of another kind leaves it as it was.
C20_RotationsCountEvents ==
    /\ rotations = SeenOf(OVERFLOW) - SeenOf(UNDERFLOW)
    /\ pc = "sleep" => result[XS] = Res("read", "nodata")
    /\ Len(seen) <= nReads[XS]

\* A pass that read an OVERFLOW and an event of another kind has ended.
C20_Witness ==
    /\ pc = "sleep"
    /\ seen = <<OVERFLOW, INDEX>>
    /\ rotations = 1


\* The writes of w made to the files of count id, in order.
WritesOf(w, id) == SelectSeq(w, LAMBDA x : x.id = id)

\* What Count.__init__ is to write for count id, given the arguments a.
ExpectedWrites(id, a) ==
    <<SysfsWrite(id, "enable", "0"),
      SysfsWrite(id, "ceiling", ToString(a.ceiling)),
      SysfsWrite(id, "function", a.function)>>
    \o (IF a.count = <<>> THEN <<>>
        ELSE <<SysfsWrite(id, "count", ToString(a.count[1]))>>)

\* C18: in the construction of a Counter, whatever sysfs held before, the
\* first write to a count's files is enable = 0, before its ceiling, its
\* function and (when a count is given, 0 included) its count, and nothing
\* writes enable = 1; when the construction returns, every count has had
\* all its writes and is disabled.
C18_ConstructionDisablesFirst ==
    [][(cstate = "new" /\ cstate' # "new") =>
          \A id \in 0..(numCounts - 1) :
              LET w == WritesOf(writes', id)
              IN /\ IsPrefix(w, ExpectedWrites(id, cargs'))
                 /\ cstate' = "built" =>
                       /\ w = ExpectedWrites(id, cargs')
                       /\ ~EnableOf(sysfs'[id].enable)]_vars

\* A Counter of two counts was constructed with count = 0.
C18_Witness ==
    /\ cstate = "built"
    /\ numCounts = 2
    /\ cargs.count = <<0>>
    /\ Len(writes) = 8
    /\ \A id \in 0..1 : sysfs[id].count = "0" /\ sysfs[id].enable = "0"


\* The number some bits stand for (of fewer than 31 bits).
RECURSIVE ValueOf(_)
ValueOf(b) == IF b = <<>> THEN 0 ELSE b[1] + 2 * ValueOf(Tail(b))

\* The fields of a request code, lowest first: the argument of the call c
\* that goes into each, where it starts and how wide it is.
IocFields(c) ==
    <<[arg |-> c.request_nr, shift |-> 0, bits |-> _IOC_NRBITS],
      [arg |-> c.request_type, shift |-> _IOC_NRBITS, bits |-> _IOC_TYPEBITS],
      [arg |-> c.size, shift |-> _IOC_NRBITS + _IOC_TYPEBITS,
       bits |-> _IOC_SIZEBITS],
      [arg |-> c.direction,
       shift |-> _IOC_NRBITS + _IOC_TYPEBITS + _IOC_SIZEBITS,
       bits |-> _IOC_DIRBITS]>>

\* What the code holds in the field f.
Field(code, f) == ValueOf([i \in 1..f.bits |-> BitAt(code, f.shift + i)])

FitsField(f) == f.arg < 2^f.bits
InWidth(c) == \A k \in 1..4 : FitsField(IocFields(c)[k])
IocArgs(c) == <<c.direction, c.request_type, c.request_nr, c.size>>

\* The code is direction*2^30 + size*2^16 + type*2^8 + number: its bits
\* from bit 30 up are the direction, and the 30 bits below stand for
\* size*2^16 + type*2^8 + number (a number TLC's integers hold).
IsIocSum(code, c) ==
    /\ ValueOf([i \in 1..30 |-> BitAt(code, i)])
          = c.size * 2^16 + c.request_type * 2^8 + c.request_nr
    /\ ValueOf([i \in 1..(_IOC_DIRBITS + 1) |-> BitAt(code, 30 + i)])
          = c.direction
    /\ Len(code) <= 30 + _IOC_DIRBITS

\* C12: for arguments within the field widths _IOC returns
\* direction*2^30 + size*2^16 + type*2^8 + number, a code of at most 32
\* bits from which each argument is read back, so that two calls with
\* different arguments give different codes; the codes of add-watch,
\* enable-events and disable-events are three different codes.
C12_IocPacksFields ==
    [][/\ \A i \in DOMAIN iocCall' :
             LET c == iocCall'[i]
             IN InWidth(c) =>
                   /\ IsIocSum(c.code, c)
                   /\ \A k \in 1..4 :
                         Field(c.code, IocFields(c)[k]) = IocFields(c)[k].arg
                   /\ \A j \in DOMAIN iocCall :
                         (InWidth(iocCall[j])
                            /\ IocArgs(iocCall[j]) # IocArgs(c))
                         => iocCall[j].code # c.code
       /\ COUNTER_ADD_WATCH_IOCTL # COUNTER_ENABLE_EVENTS_IOCTL
       /\ COUNTER_ADD_WATCH_IOCTL # COUNTER_DISABLE_EVENTS_IOCTL
       /\ COUNTER_ENABLE_EVENTS_IOCTL # COUNTER_DISABLE_EVENTS_IOCTL]_vars

\* A call with the highest value of every field but the number.
C12_Witness ==
    \E i \in DOMAIN iocCall :
        /\ InWidth(iocCall[i])
        /\ iocCall[i].direction = 2^_IOC_DIRBITS - 1
        /\ iocCall[i].request_type = 2^_IOC_TYPEBITS - 1
        /\ iocCall[i].size = 2^_IOC_SIZEBITS - 1
        /\ iocCall[i].request_nr = 2
        /\ Len(iocCall[i].code) = 32

\* C13 as stated: an argument wider than its field is cut to the field or
\* refused, so it never changes another field: whatever the other
\* arguments, a field whose own argument fits holds that argument.
C13_OverWideStaysInField ==
    \A i \in DOMAIN iocCall :
        \A k \in 1..4 :
            LET f == IocFields(iocCall[i])[k]
            IN FitsField(f) => Field(iocCall[i].code, f) = f.arg

\* C13, amended: _IOC neither cuts nor refuses an argument wider than its
\* field.  Every 1 bit of every argument is in the code, at its place
\* counted from the start of the argument's field, so the bits beyond the
\* field fall into the fields above it (and those of the direction beyond
\* bit 31).  The fields below the argument are not changed: a field holds
\* the low bits of its argument whenever every argument below it fits.
C13_OverWideSpillsUpward ==
    \A i \in DOMAIN iocCall :
        LET c == iocCall[i]
            fs == IocFields(c)
        IN \A k \in 1..4 :
              /\ \A b \in DOMAIN ToBits(fs[k].arg) :
                    ToBits(fs[k].arg)[b] = 1 =>
                        BitAt(c.code, fs[k].shift + b) = 1
              /\ (\A l \in 1..(k - 1) : FitsField(fs[l])) =>
                    Field(c.code, fs[k]) = fs[k].arg % 2^fs[k].bits

\* A call with the number 2^8 and the type 0x3E: the type field holds
\* 0x3F.
C13_Witness ==
    \E i \in DOMAIN iocCall :
        LET c == iocCall[i]
        IN /\ c.request_nr = 2^_IOC_NRBITS
           /\ c.request_type = COUNTER_IOCTL_TYPE
           /\ c.size = 0 /\ c.direction = _IOC_NONE
           /\ Field(c.code, IocFields(c)[2]) = COUNTER_IOCTL_TYPE + 1


\* All there is of the session s: its handle, the kernel's registration
\* on it, the closures' stack, its data and its calls' outcomes.
SessionView(s) ==
    <<state[s], fdOpen[s], nonblock[s], reg[s], enabled[s], log[s],
      unsub[s], asked[s], pending[s], data[s], result[s], nReads[s],
      nCloses[s]>>

\* C11: two sessions of one Counter are independent: a step that changes
\* anything of one session (a subscribe_events, read_event or unsubscribe
\* call, failing or not, or data arriving) leaves everything of the other
\* as it was, its handle, its enabled state and its registered watches
\* included, in every interleaving of the two sessions' calls.
C11_SessionsIndependent ==
    [][\A s, t \in Sessions :
          (s # t /\ SessionView(t)' # SessionView(t)) =>
              SessionView(s)' = SessionView(s)]_vars

\* One session was closed with its disable-events refused; the other,
\* opened with another watch, is active and has read a record.
C11_Witness ==
    /\ state["s1"] = "closed"
    /\ result["s1"] = Res("close", "error")
    /\ reg["s1"] = <<OVERFLOW>>
    /\ Active("s2")
    /\ fdOpen["s2"] /\ enabled["s2"]
    /\ reg["s2"] = <<UNDERFLOW>>
    /\ result["s2"] = ResEvent(UNDERFLOW)

====
